---- MODULE Spec2Model ----
(***************************************************************************)
(* State-machine model of the manual shift roster tool (src/main.py):      *)
(* the period calendar (current_period, resolve_day, the inline            *)
(* resolution of _rebuild_period_maps), the ShiftModel cell state machine  *)
(* (toggle_status, toggle_paid_flag, toggle_wish_cycle) and the            *)
(* MainWindow handlers on_load / on_save / on_check, the weekday-rules     *)
(* dialog and the members dialog.                                          *)
(***************************************************************************)
EXTENDS Integers, Sequences, FiniteSets, TLC

(* ------------------------------ bounds --------------------------------- *)
\* first year offered by the year combo box and how many years it offers
FirstYear == 2023
NumYears == 2
\* how many cell edits (toggle calls) one behaviour of Spec / SpecModel makes
MaxEdits == 3
\* how many saves (on_save) one behaviour makes
MaxSaves == 1

Years == FirstYear .. (FirstYear + NumYears - 1)
\* month combo box: range(1, 13)
Months == 1 .. 12

(* --------------------------- calendar helpers -------------------------- *)
\* calendar.isleap, used by monthrange
IsLeap(y) == (y % 4 = 0) /\ ((y % 100 # 0) \/ (y % 400 = 0))

\* calendar.mdays
MDays == <<31, 28, 31, 30, 31, 30, 31, 31, 30, 31, 30, 31>>

\* monthrange(y, m)[1]
LastDayOfMonth(y, m) == MDays[m] + (IF m = 2 /\ IsLeap(y) THEN 1 ELSE 0)

RECURSIVE DaysBeforeMonth(_, _)
DaysBeforeMonth(y, m) ==
    IF m = 1 THEN 0 ELSE DaysBeforeMonth(y, m - 1) + LastDayOfMonth(y, m - 1)

\* date(y, m, d).toordinal(): proleptic Gregorian day number
Ordinal(y, m, d) ==
    LET p == y - 1
    IN  p * 365 + (p \div 4) - (p \div 100) + (p \div 400) + DaysBeforeMonth(y, m) + d

\* date(y, m, d) exists
ValidDate(y, m, d) == m \in 1 .. 12 /\ d >= 1 /\ d <= LastDayOfMonth(y, m)

\* calendar.weekday(y, m, d): 0 = Monday .. 6 = Sunday
Weekday(y, m, d) == (Ordinal(y, m, d) + 6) % 7

\* range(a, b + 1) as a list
RECURSIVE Range(_, _)
Range(a, b) == IF a > b THEN <<>> ELSE <<a>> \o Range(a + 1, b)

\* faulty variant: range(16, last) instead of range(16, last + 1)
PeriodDaysShort(y, m) == Range(16, LastDayOfMonth(y, m) - 1) \o Range(1, 15)

\* MainWindow.current_period: the day tokens of the period based at (y, m)
PeriodDays(y, m) == Range(16, LastDayOfMonth(y, m)) \o Range(1, 15)

\* next_y, next_m of _rebuild_period_maps / next_period_base
NextPeriodBase(y, m) == IF m = 12 THEN <<y + 1, 1>> ELSE <<y, m + 1>>

\* the (yy, mm, d) that _rebuild_period_maps and headerData give a token
PeriodDate(y, m, d) ==
    IF d >= 16 THEN <<y, m, d>>
    ELSE <<NextPeriodBase(y, m)[1], NextPeriodBase(y, m)[2], d>>

\* ShiftModel.resolve_day: an int token keeps the base month; a "mm:dd"
\* token (modelled as the pair <<mm, dd>>) names its month itself
ResolveDay(base_year, base_month, token) ==
    IF token \in Int
    THEN <<base_year, base_month, token>>
    ELSE <<base_year + (IF base_month = 12 /\ token[1] = 1 THEN 1 ELSE 0),
           token[1], token[2]>>

(* ------------------------------ staff ---------------------------------- *)
\* Staff(name, is_manager): the staff directory the window was built with
StaffList == << [name |-> "sako", is_manager |-> TRUE],
                [name |-> "arai", is_manager |-> FALSE] >>

StaffNames(ss) == { ss[i].name : i \in 1 .. Len(ss) }

Toset(seq) == { seq[i] : i \in 1 .. Len(seq) }

\* the day tokens whose columns the modelled user clicks on
EditTokens == {16, 1}

(* -------------------------- status alphabet ---------------------------- *)
\* " " is working, "R" stands for the rest mark, "R*" for rest with the
\* paid-leave flag
Work == " "
Rest == "R"
RestPaid == "R*"
STATUS_ORDER == <<Work, Rest>>

\* list.index: 0-based position of x in seq, -1 for ValueError
IndexOf(seq, x) ==
    IF \E i \in 1 .. Len(seq) : seq[i] = x
    THEN (CHOOSE i \in 1 .. Len(seq) :
              seq[i] = x /\ \A j \in 1 .. (i - 1) : seq[j] # x) - 1
    ELSE -1

VARIABLES
    year_cb, month_cb,   \* selection of the year / month combo boxes
    window_staffs,       \* MainWindow.staffs
    staffs,              \* ShiftModel.staffs (the list the model was built with)
    year, month, days,   \* ShiftModel.year, .month, .days
    status,              \* ShiftModel.status[name][day]
    wishes,              \* ShiftModel.wishes[name][day]
    wish_paid,           \* ShiftModel.wish_paid[name][day]
    leaders,             \* ShiftModel.leaders[day]
    vac_days,            \* ShiftModel.vac_days[name]
    sat_days, hol_days, weekend_days,   \* ShiftModel day sets of the period
    req_min_work,        \* ShiftModel.req_min_work[day]
    paid_left,           \* ShiftModel.paid_left[name]
    sched_files,         \* data/schedule_YYYYMM_16-15.json, keyed by <<y, m>>
    vacations_file,      \* data/long_vacations.json: its "vacations" list
    holidays_file,       \* data/holidays.json: its set of dates
    weekday_rules_file,  \* data/weekday_rules.json: its "weekday_rules" map
    special_quota_file,  \* data/special_quota.json: its "periods" list
    members_file,        \* data/members.json: its "members" list
    members_is_list,     \* members.json holds a bare list, not {"members": [..]}
    tail_file,           \* data/last_tail.json, keyed by <<py, pm, 2>>
    edits, saves,        \* number of toggle calls / saves made so far
    last,                \* the last call made and the cell it found
    check                \* what the on_check run that has just ended showed

combos == << year_cb, month_cb >>
period_maps == << sat_days, hol_days, weekend_days, req_min_work, paid_left >>
config_files == << vacations_file, holidays_file, weekday_rules_file,
                   special_quota_file, members_file, members_is_list,
                   tail_file >>
staff_lists == << window_staffs, staffs >>

vars == << combos, staff_lists, year, month, days, status, wishes, wish_paid,
           leaders, vac_days, period_maps, sched_files, config_files,
           edits, saves, last, check >>

(* ------------------------ ShiftModel: cell edits ----------------------- *)
\* vac_days.get(staff, set())
VacDaysOf(staff) == IF staff \in DOMAIN vac_days THEN vac_days[staff] ELSE {}

\* faulty variant: the guard forgets the vacation days
EditLockedWishOnly(staff, day) == wishes[staff][day]

\* the guard of toggle_status / toggle_paid_flag: wish or vacation cell
EditLocked(staff, day) == wishes[staff][day] \/ day \in VacDaysOf(staff)

\* faulty variant: "R*" is not levelled to "R" before the lookup in STATUS_ORDER
NextStatusNoLevel(cur) ==
    LET found == IndexOf(STATUS_ORDER, cur)
        idx == IF found = -1 THEN 0 ELSE found
    IN  STATUS_ORDER[((idx + 1) % Len(STATUS_ORDER)) + 1]

\* toggle_status, the value written: "R*" is first levelled to "R", an
\* unknown value counts as index 0, then the next of STATUS_ORDER
NextStatus(cur) ==
    LET base == IF cur = RestPaid THEN Rest ELSE cur
        found == IndexOf(STATUS_ORDER, base)
        idx == IF found = -1 THEN 0 ELSE found
    IN  STATUS_ORDER[((idx + 1) % Len(STATUS_ORDER)) + 1]

\* faulty variant: the flag is set but never taken off again
PaidFlipOneWay(cur) == IF cur = Rest THEN RestPaid ELSE cur

\* faulty variant: the flag is also put on a cell that is not a rest cell
PaidFlipAny(cur) == IF cur = RestPaid THEN Rest ELSE RestPaid

\* toggle_paid_flag, the value written ("R" <-> "R*", others are kept)
PaidFlip(cur) ==
    IF cur = Rest THEN RestPaid
    ELSE IF cur = RestPaid THEN Rest
    ELSE cur

\* the record of a call: which method, on which cell, what the cell held
\* before it; run counts the consecutive calls of this method on this cell
\* and status0 / wish0 / paid0 is what the cell held before the first of them
Call(op, row, col) ==
    LET staff == staffs[row].name
        day == days[col]
        again == last.op = op /\ last.staff = staff /\ last.day = day
    IN  [op |-> op, staff |-> staff, day |-> day,
         status |-> status[staff][day],
         wish |-> wishes[staff][day],
         paid |-> wish_paid[staff][day],
         run |-> IF again THEN last.run + 1 ELSE 1,
         status0 |-> IF again THEN last.status0 ELSE status[staff][day],
         wish0 |-> IF again THEN last.wish0 ELSE wishes[staff][day],
         paid0 |-> IF again THEN last.paid0 ELSE wish_paid[staff][day]]

NoCall(op) ==
    [op |-> op, staff |-> "", day |-> 0, status |-> Work,
     wish |-> FALSE, paid |-> FALSE, run |-> 0,
     status0 |-> Work, wish0 |-> FALSE, paid0 |-> FALSE]

\* no result of on_check is on the screen: its message box is modal, so it
\* has been closed before any other handler runs
NoCheck == [outcome |-> "none", msgs |-> << >>]

ToggleStatus(row, col) ==
    LET staff == staffs[row].name
        day == days[col]
    IN  /\ edits < MaxEdits
        /\ status' = IF EditLocked(staff, day) THEN status
                     ELSE [status EXCEPT ![staff][day] = NextStatus(@)]
        /\ last' = Call("toggle_status", row, col)
        /\ check' = NoCheck
        /\ edits' = edits + 1
        /\ UNCHANGED << combos, staff_lists, year, month, days, wishes, wish_paid,
                        leaders, vac_days, period_maps, sched_files,
                        config_files, saves >>

TogglePaidFlag(row, col) ==
    LET staff == staffs[row].name
        day == days[col]
    IN  /\ edits < MaxEdits
        /\ status' = IF EditLocked(staff, day) THEN status
                     ELSE [status EXCEPT ![staff][day] = PaidFlip(@)]
        /\ last' = Call("toggle_paid_flag", row, col)
        /\ check' = NoCheck
        /\ edits' = edits + 1
        /\ UNCHANGED << combos, staff_lists, year, month, days, wishes, wish_paid,
                        leaders, vac_days, period_maps, sched_files,
                        config_files, saves >>

\* faulty variant: the two-state toggle of toggle_wish (wish on / wish off)
WishCycleTwoState(is_wish, is_paid) ==
    IF ~is_wish THEN <<TRUE, FALSE>> ELSE <<FALSE, FALSE>>

\* toggle_wish_cycle, the (wishes, wish_paid) pair written
WishCycle(is_wish, is_paid) ==
    IF ~is_wish THEN <<TRUE, FALSE>>
    ELSE IF ~is_paid THEN <<TRUE, TRUE>>
    ELSE <<FALSE, FALSE>>

\* faulty variant: putting a wish on a cell also resets its status to working
ToggleWishCycleClearsStatus(row, col) ==
    LET staff == staffs[row].name
        day == days[col]
        nxt == WishCycle(wishes[staff][day], wish_paid[staff][day])
    IN  /\ edits < MaxEdits
        /\ IF day \in VacDaysOf(staff)
           THEN UNCHANGED << wishes, wish_paid, status >>
           ELSE /\ wishes' = [wishes EXCEPT ![staff][day] = nxt[1]]
                /\ wish_paid' = [wish_paid EXCEPT ![staff][day] = nxt[2]]
                /\ status' = [status EXCEPT ![staff][day] = Work]
        /\ last' = Call("toggle_wish_cycle", row, col)
        /\ check' = NoCheck
        /\ edits' = edits + 1
        /\ UNCHANGED << combos, staff_lists, year, month, days, leaders,
                        vac_days, period_maps, sched_files, config_files,
                        saves >>

ToggleWishCycle(row, col) ==
    LET staff == staffs[row].name
        day == days[col]
        nxt == WishCycle(wishes[staff][day], wish_paid[staff][day])
    IN  /\ edits < MaxEdits
        /\ IF day \in VacDaysOf(staff)
           THEN UNCHANGED << wishes, wish_paid >>
           ELSE /\ wishes' = [wishes EXCEPT ![staff][day] = nxt[1]]
                /\ wish_paid' = [wish_paid EXCEPT ![staff][day] = nxt[2]]
        /\ last' = Call("toggle_wish_cycle", row, col)
        /\ check' = NoCheck
        /\ edits' = edits + 1
        /\ UNCHANGED << combos, staff_lists, year, month, days, status, leaders,
                        vac_days, period_maps, sched_files, config_files,
                        saves >>

\* ShiftModel.toggle_wish: the wish of the cell is negated, whatever the
\* cell holds; wish_paid is not touched
ToggleWish(row, col) ==
    LET staff == staffs[row].name
        day == days[col]
    IN  /\ edits < MaxEdits
        /\ wishes' = [wishes EXCEPT ![staff][day] = ~@]
        /\ last' = Call("toggle_wish", row, col)
        /\ check' = NoCheck
        /\ edits' = edits + 1
        /\ UNCHANGED << combos, staff_lists, year, month, days, status,
                        wish_paid, leaders, vac_days, period_maps, sched_files,
                        config_files, saves >>

\* the cells the modelled user clicks: any row, the columns of EditTokens
EditCells == { rc \in (1 .. Len(staffs)) \X (1 .. Len(days)) :
                   days[rc[2]] \in EditTokens }

(* --------------------------- persisted data ---------------------------- *)
\* str(n) of a non-negative int: its decimal digits, most significant first
\* (json.dump writes an int key of a dict the same way)
RECURSIVE Str(_)
Str(n) == IF n < 10 THEN <<n>> ELSE Str(n \div 10) \o <<n % 10>>

\* {str(d): v for d, v in row.items()}
StrKeyed(row) ==
    [k \in { Str(d) : d \in DOMAIN row } |->
         row[CHOOSE d \in DOMAIN row : Str(d) = k]]

\* date ordering: dates are <<y, m, d>> triples
DateOrd(t) == Ordinal(t[1], t[2], t[3])

\* members.json as the members dialog writes it
MembersFile == << [name |-> "sako", is_manager |-> TRUE, paid_left |-> 0],
                  [name |-> "arai", is_manager |-> FALSE, paid_left |-> 0] >>

\* one row of long_vacations.json as LongVacationDialog.save_and_close
\* writes it
VacRow(member, start, end) ==
    LET n == DateOrd(end) - DateOrd(start) + 1
    IN  [member |-> member, name |-> "leave", start |-> start, end |-> end,
         days |-> n, paid_cap |-> n \div 2, paid_used |-> 0]

\* the vacation intervals offered to the long-vacation file: from 16
\* December of the first year, and at the first days of the following January
VacIntervals ==
    { << <<FirstYear, 12, 16>>, <<FirstYear, 12, 18>> >>,
      << <<FirstYear + 1, 1, 1>>, <<FirstYear + 1, 1, 2>> >> }

\* the long_vacations.json contents considered: no row, or one row
VacFiles ==
    { << >> } \cup
    { << VacRow(n, iv[1], iv[2]) >> : n \in StaffNames(StaffList), iv \in VacIntervals }

\* build_vacation_map(year, month, days, vacations_obj, staff_names): every
\* token d is compared as date(year, month, d)
RECURSIVE BuildVacationMapFrom(_, _, _, _, _, _)
BuildVacationMapFrom(vac_map, i, y, m, dd, vacs) ==
    IF i > Len(vacs) THEN vac_map
    ELSE LET v == vacs[i]
             lo == IF DateOrd(v.end) < DateOrd(v.start) THEN v.end ELSE v.start
             hi == IF DateOrd(v.end) < DateOrd(v.start) THEN v.start ELSE v.end
             hit == { d \in Toset(dd) :
                        /\ DateOrd(lo) <= Ordinal(y, m, d)
                        /\ Ordinal(y, m, d) <= DateOrd(hi) }
         IN  IF v.member \notin DOMAIN vac_map
             THEN BuildVacationMapFrom(vac_map, i + 1, y, m, dd, vacs)
             ELSE BuildVacationMapFrom(
                      [vac_map EXCEPT ![v.member] = @ \cup hit],
                      i + 1, y, m, dd, vacs)

BuildVacationMap(y, m, dd, vacs, staff_names) ==
    BuildVacationMapFrom([n \in staff_names |-> {}], 1, y, m, dd, vacs)

(* ---------------- MainWindow._rebuild_period_maps ----------------------- *)
\* weekday of the calendar date of token d in the period based at (y, m)
TokenWeekday(y, m, d) ==
    LET t == PeriodDate(y, m, d) IN Weekday(t[1], t[2], t[3])

SatDays(y, m, dd) == { d \in Toset(dd) : TokenWeekday(y, m, d) = 5 }

HolDays(y, m, dd, hol_set) ==
    { d \in Toset(dd) : TokenWeekday(y, m, d) = 6 \/ PeriodDate(y, m, d) \in hol_set }

WeekendDays(y, m, dd) == { d \in Toset(dd) : TokenWeekday(y, m, d) \in {5, 6} }

\* rules.get(str(wd), {}).get("min_work", 0)
RuleMinWork(rules, wd) ==
    IF Str(wd) \in DOMAIN rules THEN rules[Str(wd)].min_work ELSE 0

Max(a, b) == IF a >= b THEN a ELSE b

Min(a, b) == IF a <= b THEN a ELSE b

\* faulty variant: a covering period overwrites the requirement, req[d] = mw
RECURSIVE ApplyQuotasOverwrite(_, _, _, _, _)
ApplyQuotasOverwrite(req, i, y, m, periods) ==
    IF i > Len(periods) THEN req
    ELSE LET p == periods[i]
             lo == IF DateOrd(p.end) < DateOrd(p.start) THEN p.end ELSE p.start
             hi == IF DateOrd(p.end) < DateOrd(p.start) THEN p.start ELSE p.end
         IN  ApplyQuotasOverwrite(
                 [d \in DOMAIN req |->
                      IF /\ DateOrd(lo) <= DateOrd(PeriodDate(y, m, d))
                         /\ DateOrd(PeriodDate(y, m, d)) <= DateOrd(hi)
                      THEN p.min_work ELSE req[d]],
                 i + 1, y, m, periods)

\* the special-quota loop: req[d] = max(req[d], mw) on the days a period covers
RECURSIVE ApplyQuotas(_, _, _, _, _)
ApplyQuotas(req, i, y, m, periods) ==
    IF i > Len(periods) THEN req
    ELSE LET p == periods[i]
             lo == IF DateOrd(p.end) < DateOrd(p.start) THEN p.end ELSE p.start
             hi == IF DateOrd(p.end) < DateOrd(p.start) THEN p.start ELSE p.end
         IN  ApplyQuotas(
                 [d \in DOMAIN req |->
                      IF /\ DateOrd(lo) <= DateOrd(PeriodDate(y, m, d))
                         /\ DateOrd(PeriodDate(y, m, d)) <= DateOrd(hi)
                      THEN Max(req[d], p.min_work) ELSE req[d]],
                 i + 1, y, m, periods)

ReqMinWork(y, m, dd, rules, periods) ==
    ApplyQuotas([d \in Toset(dd) |-> RuleMinWork(rules, TokenWeekday(y, m, d))],
                1, y, m, periods)

\* {s.name: paid_map.get(s.name, 0)}
PaidLeft(ss, members) ==
    [n \in StaffNames(ss) |->
         IF \E i \in 1 .. Len(members) : members[i].name = n
         THEN members[CHOOSE i \in 1 .. Len(members) :
                          /\ members[i].name = n
                          /\ \A j \in (i + 1) .. Len(members) : members[j].name # n].paid_left
         ELSE 0]

(* ------------------- ShiftModel on its own (SpecModel) ----------------- *)
\* ShiftModel.__init__(staffs, days, year, month): every cell working, no
\* wish, no leader, empty day sets (vac_days, also set there, is given by
\* the caller below)
Constructed(ss, dd, y, m) ==
    /\ window_staffs = ss
    /\ staffs = ss
    /\ days = dd
    /\ year = y
    /\ month = m
    /\ status = [n \in StaffNames(ss) |-> [d \in Toset(dd) |-> Work]]
    /\ wishes = [n \in StaffNames(ss) |-> [d \in Toset(dd) |-> FALSE]]
    /\ wish_paid = [n \in StaffNames(ss) |-> [d \in Toset(dd) |-> FALSE]]
    /\ leaders = [d \in Toset(dd) |-> ""]
    /\ req_min_work = [d \in Toset(dd) |-> 0]
    /\ sat_days = {}
    /\ hol_days = {}
    /\ weekend_days = {}
    /\ paid_left = [n \in StaffNames(ss) |-> 0]

\* the months the modelled user selects when cells are edited: the period
\* before the turn of the year and the one across it
EditMonths == {11, 12}

\* the data directory of a fresh installation, but for long_vacations.json
FreshFiles ==
    /\ sched_files = << >>
    /\ holidays_file = {}
    /\ weekday_rules_file = << >>
    /\ special_quota_file = << >>
    /\ members_file = MembersFile
    /\ members_is_list = FALSE
    /\ tail_file = << >>

\* a ShiftModel built for a period, all cells working, whose vac_days
\* attribute holds what build_vacation_map gives for the period
InitModel ==
    /\ year_cb = FirstYear
    /\ month_cb \in EditMonths
    /\ Constructed(StaffList, PeriodDays(year_cb, month_cb), year_cb, month_cb)
    /\ vacations_file \in VacFiles
    /\ vac_days = BuildVacationMap(year, month, days, vacations_file,
                                   StaffNames(StaffList))
    /\ FreshFiles
    /\ edits = 0
    /\ saves = 0
    /\ last = NoCall("init")
    /\ check = NoCheck

NextModel ==
    \/ \E rc \in EditCells : ToggleStatus(rc[1], rc[2])
    \/ \E rc \in EditCells : TogglePaidFlag(rc[1], rc[2])
    \/ \E rc \in EditCells : ToggleWishCycle(rc[1], rc[2])

SpecModel == InitModel /\ [][NextModel]_vars

\* ShiftModel alone with every method that edits a cell, toggle_wish too
NextWish ==
    \/ \E rc \in EditCells : ToggleStatus(rc[1], rc[2])
    \/ \E rc \in EditCells : TogglePaidFlag(rc[1], rc[2])
    \/ \E rc \in EditCells : ToggleWishCycle(rc[1], rc[2])
    \/ \E rc \in EditCells : ToggleWish(rc[1], rc[2])

SpecWish == InitModel /\ [][NextWish]_vars

(* ----------------------------- MainWindow ------------------------------ *)
\* obj.get(field, {}) of a loaded schedule file ({} when there is no file)
SavedField(obj, field) == IF field \in DOMAIN obj THEN obj[field] ELSE << >>

\* saved.get(nm, {})
SavedRow(saved, nm) == IF nm \in DOMAIN saved THEN saved[nm] ELSE << >>

\* on_load: _get_saved(row, d) or " "  (a JSON object has string keys only,
\* so the lookup that succeeds is the one by str(d))
SavedStatus(row, d) ==
    IF Str(d) \in DOMAIN row
    THEN (IF row[Str(d)] = "" THEN Work ELSE row[Str(d)])
    ELSE Work

\* on_load: bool(_get_saved(row, d))
SavedFlag(row, d) == IF Str(d) \in DOMAIN row THEN row[Str(d)] ELSE FALSE

\* on_load: saved_leaders.get(str(d), "-")
SavedLeader(saved, d) == IF Str(d) \in DOMAIN saved THEN saved[Str(d)] ELSE "-"

\* the schedule file on_load reads for (y, m): {} when it does not exist
SavedObj(y, m) ==
    IF <<y, m>> \in DOMAIN sched_files THEN sched_files[<<y, m>>] ELSE << >>

\* faulty variant: the file is written without the paid-wish flags
ToJsonNoWishPaid ==
    [year |-> year, month |-> month, days |-> days,
     status |-> [n \in DOMAIN status |-> StrKeyed(status[n])],
     wishes |-> [n \in DOMAIN wishes |-> StrKeyed(wishes[n])],
     leaders |-> StrKeyed(leaders)]

\* ShiftModel.to_json, as json.dump writes it: every day key is a string
ToJson ==
    [year |-> year, month |-> month, days |-> days,
     status |-> [n \in DOMAIN status |-> StrKeyed(status[n])],
     wishes |-> [n \in DOMAIN wishes |-> StrKeyed(wishes[n])],
     wish_paid |-> [n \in DOMAIN wish_paid |-> StrKeyed(wish_paid[n])],
     leaders |-> StrKeyed(leaders)]

\* the user picks another entry of the year combo box
SelectYear(y) ==
    /\ y # year_cb
    /\ year_cb' = y
    /\ last' = NoCall("select")
    /\ check' = NoCheck
    /\ UNCHANGED << month_cb, staff_lists, year, month, days, status, wishes,
                    wish_paid, leaders, vac_days, period_maps, sched_files,
                    config_files, edits, saves >>

\* the user picks another entry of the month combo box
SelectMonth(m) ==
    /\ m # month_cb
    /\ month_cb' = m
    /\ last' = NoCall("select")
    /\ check' = NoCheck
    /\ UNCHANGED << year_cb, staff_lists, year, month, days, status, wishes,
                    wish_paid, leaders, vac_days, period_maps, sched_files,
                    config_files, edits, saves >>

\* the body of MainWindow.on_load for the staff directory ss: set_period,
\* _rebuild_period_maps, then every cell of the staff directory and the
\* period from the schedule file, else default.  When members.json holds a
\* bare list (is_list), mem.get in _rebuild_period_maps raises after
\* req_min_work has been assigned: the handler ends there, and paid_left
\* and the cells keep what they held
LoadPeriod(ss, is_list, members) ==
    LET y == year_cb
        m == month_cb
        dd == PeriodDays(y, m)
        obj == SavedObj(y, m)
        names == StaffNames(ss)
    IN  /\ year' = y
        /\ month' = m
        /\ days' = dd
        /\ sat_days' = SatDays(y, m, dd)
        /\ hol_days' = HolDays(y, m, dd, holidays_file)
        /\ weekend_days' = WeekendDays(y, m, dd)
        /\ req_min_work' = ReqMinWork(y, m, dd, weekday_rules_file,
                                      special_quota_file)
        /\ IF is_list
           THEN UNCHANGED << paid_left, status, wishes, wish_paid, leaders >>
           ELSE /\ paid_left' = PaidLeft(ss, members)
                /\ status' = [n \in names |-> [d \in Toset(dd) |->
                       SavedStatus(SavedRow(SavedField(obj, "status"), n), d)]]
                /\ wishes' = [n \in names |-> [d \in Toset(dd) |->
                       SavedFlag(SavedRow(SavedField(obj, "wishes"), n), d)]]
                /\ wish_paid' = [n \in names |-> [d \in Toset(dd) |->
                       SavedFlag(SavedRow(SavedField(obj, "wish_paid"), n), d)]]
                /\ leaders' = [d \in Toset(dd) |->
                       SavedLeader(SavedField(obj, "leaders"), d)]

\* MainWindow.on_load (the load button)
OnLoad ==
    /\ LoadPeriod(window_staffs, members_is_list, members_file)
    /\ last' = NoCall("on_load")
    /\ check' = NoCheck
    /\ UNCHANGED << combos, staff_lists, vac_days, sched_files, config_files,
                    edits, saves >>

\* faulty variant: the record holds the last three days only
DefaultTailThree == << "-", "-", "-" >>

\* MainWindow.on_edit_prev_tail: the four tail entries every staff member
\* gets when last_tail.json has no record for the previous period
DefaultTail == << "-", "-", "-", "-" >>

\* MainWindow.prev_period_base
PrevPeriodBase(y, m) == IF m = 1 THEN << y - 1, 12 >> ELSE << y, m - 1 >>

\* the key f"{py:04d}{pm:02d}_2" of the selected period's predecessor, as
\* the triple of the numbers it is formatted from
TailKey ==
    LET p == PrevPeriodBase(year_cb, month_cb) IN << p[1], p[2], 2 >>

\* MainWindow.on_edit_prev_tail: when last_tail.json has no record under the
\* key, one is written with the default entries for every member of
\* MainWindow.staffs; a record that is there is left alone (opening the file
\* in an editor is outside the program)
OnEditPrevTail ==
    /\ tail_file' =
           IF TailKey \in DOMAIN tail_file THEN tail_file
           ELSE [k \in DOMAIN tail_file \cup {TailKey} |->
                     IF k = TailKey
                     THEN [n \in StaffNames(window_staffs) |-> DefaultTail]
                     ELSE tail_file[k]]
    /\ last' = NoCall("on_edit_prev_tail")
    /\ check' = NoCheck
    /\ UNCHANGED << combos, staff_lists, year, month, days, status, wishes,
                    wish_paid, leaders, vac_days, period_maps, sched_files,
                    vacations_file, holidays_file, weekday_rules_file,
                    special_quota_file, members_file, members_is_list,
                    edits, saves >>

\* MainWindow.on_save: the model's JSON goes to the schedule file of the
\* period the combo boxes show
OnSave ==
    LET key == <<year_cb, month_cb>>
    IN  /\ saves < MaxSaves
        /\ sched_files' = [k \in DOMAIN sched_files \cup {key} |->
                               IF k = key THEN ToJson ELSE sched_files[k]]
        /\ saves' = saves + 1
        /\ last' = NoCall("on_save")
        /\ check' = NoCheck
        /\ UNCHANGED << combos, staff_lists, year, month, days, status, wishes,
                        wish_paid, leaders, vac_days, period_maps,
                        config_files, edits >>

(* ------------------- ShiftModel.headerData (columns) -------------------- *)
\* ShiftModel.count_work_on_day: the members of the model's staff list whose
\* status on the day is " "
CountWorkOnDay(day) ==
    Cardinality({ i \in 1 .. Len(staffs) : status[staffs[i].name][day] = Work })

\* headerData: need = int(req_min_work.get(day, 0))
HeaderNeed(day) == IF day \in DOMAIN req_min_work THEN req_min_work[day] ELSE 0

\* headerData: the third line of a column header, "full" or how many are
\* missing, shown only under a requirement above 0; 0 stands for no line
\* and for "full"
HeaderMissing(day) ==
    IF HeaderNeed(day) > 0 /\ CountWorkOnDay(day) < HeaderNeed(day)
    THEN HeaderNeed(day) - CountWorkOnDay(day)
    ELSE 0

(* ------------------------- MainWindow.on_check -------------------------- *)
\* rules.get(str(wd), {}).get("min_managers", 0)
RuleMinManagers(rules, wd) ==
    IF Str(wd) \in DOMAIN rules THEN rules[Str(wd)].min_managers ELSE 0

\* bool(rules.get(str(wd), {}).get("leader_required", False))
RuleLeaderRequired(rules, wd) ==
    IF Str(wd) \in DOMAIN rules THEN rules[Str(wd)].leader_required ELSE FALSE

\* status[nm][d] raises KeyError: the model holds no such cell
CellMissing(nm, d) == nm \notin DOMAIN status \/ d \notin DOMAIN status[nm]

\* one line of the message list: f"{m}/{d}: <what is short>（{cnt}/{need}）";
\* the leader line carries no numbers (cnt and need are 0 there)
Msg(m, d, rule, cnt, need) ==
    [month |-> m, day |-> d, rule |-> rule, cnt |-> cnt, need |-> need]

\* the loop body of on_check raises for day d: calendar.weekday on a date
\* that does not exist, status[nm][d] on a missing cell, or s.is_leader,
\* an attribute class Staff does not have, read for the first staff member
\* as soon as the rule of the day has leader_required
CheckDayRaises(y, m, d, rules) ==
    \/ ~ValidDate(y, m, d)
    \/ \E i \in 1 .. Len(window_staffs) : CellMissing(window_staffs[i].name, d)
    \/ /\ RuleLeaderRequired(rules, Weekday(y, m, d))
       /\ Len(window_staffs) > 0

\* the loop body of on_check for day d when it does not raise: the lines it
\* appends.  wd is the weekday of date(y, m, d), the base month for every
\* token; need_work is the model's req_min_work[d] and, when that is 0, the
\* min_work of the rule of wd.  The leader line is reached without raising
\* only with an empty staff list, where any() is False
CheckDay(y, m, d, rules) ==
    LET wd == Weekday(y, m, d)
        stored == IF d \in DOMAIN req_min_work THEN req_min_work[d] ELSE 0
        need_work == IF stored = 0 THEN RuleMinWork(rules, wd) ELSE stored
        min_managers == RuleMinManagers(rules, wd)
        work_cnt == Cardinality({ i \in 1 .. Len(window_staffs) :
                        status[window_staffs[i].name][d] = Work })
        mgr_work == Cardinality({ i \in 1 .. Len(window_staffs) :
                        /\ window_staffs[i].is_manager
                        /\ status[window_staffs[i].name][d] = Work })
    IN  (IF need_work # 0 /\ work_cnt < need_work
         THEN << Msg(m, d, "work", work_cnt, need_work) >> ELSE << >>)
        \o
        (IF min_managers # 0 /\ mgr_work < min_managers
         THEN << Msg(m, d, "manager", mgr_work, min_managers) >> ELSE << >>)
        \o
        (IF RuleLeaderRequired(rules, wd)
         THEN << Msg(m, d, "leader", 0, 0) >> ELSE << >>)

\* faulty variant: the loop runs over sorted(days), token 1 first
RECURSIVE CheckMsgsSorted(_, _, _, _, _)
CheckMsgsSorted(i, y, m, dd, rules) ==
    IF i > Len(dd) THEN << >>
    ELSE LET d == CHOOSE t \in Toset(dd) :
                      Cardinality({ u \in Toset(dd) : u < t }) = i - 1
         IN  CheckDay(y, m, d, rules) \o CheckMsgsSorted(i + 1, y, m, dd, rules)

\* msgs after the loop over days[i ..]
RECURSIVE CheckMsgs(_, _, _, _, _)
CheckMsgs(i, y, m, dd, rules) ==
    IF i > Len(dd) THEN << >>
    ELSE CheckDay(y, m, dd[i], rules) \o CheckMsgs(i + 1, y, m, dd, rules)

\* what an on_check run shows: nothing when it raised (the handler ends in
\* the exception), the all-clear box, or the warning box with the lines
CheckResult(y, m, dd, rules) ==
    IF \E i \in 1 .. Len(dd) : CheckDayRaises(y, m, dd[i], rules)
    THEN [outcome |-> "error", msgs |-> << >>]
    ELSE LET msgs == CheckMsgs(1, y, m, dd, rules)
         IN  IF msgs = << >> THEN [outcome |-> "clear", msgs |-> msgs]
             ELSE [outcome |-> "warning", msgs |-> msgs]

\* faulty variant: the run stores the requirement it judged a day by in the
\* model's per-day requirement map
OnCheckStoresNeed ==
    /\ check' = CheckResult(year_cb, month_cb, PeriodDays(year_cb, month_cb),
                            weekday_rules_file)
    /\ req_min_work' =
           [d \in DOMAIN req_min_work |->
                IF req_min_work[d] = 0
                THEN RuleMinWork(weekday_rules_file, Weekday(year_cb, month_cb, d))
                ELSE req_min_work[d]]
    /\ last' = NoCall("on_check")
    /\ UNCHANGED << combos, staff_lists, year, month, days, status, wishes,
                    wish_paid, leaders, vac_days, sat_days, hol_days,
                    weekend_days, paid_left, sched_files, config_files,
                    edits, saves >>

\* MainWindow.on_check: the period of the combo boxes, the cells of the
\* model, weekday_rules.json as it is on disk now
OnCheck ==
    /\ check' = CheckResult(year_cb, month_cb, PeriodDays(year_cb, month_cb),
                            weekday_rules_file)
    /\ last' = NoCall("on_check")
    /\ UNCHANGED << combos, staff_lists, year, month, days, status, wishes,
                    wish_paid, leaders, vac_days, period_maps, sched_files,
                    config_files, edits, saves >>

(* ------------------------ configuration dialogs ------------------------ *)
\* one row of weekday_rules.json
RuleRow(min_work, min_managers, leader_required) ==
    [min_work |-> min_work, min_managers |-> min_managers,
     leader_required |-> leader_required]

\* the template WeekdayRulesDialog writes when weekday_rules.json is missing
WeekdayRulesTemplate ==
    [k \in { Str(r) : r \in 0 .. 6 } |->
         IF k \in { Str(5), Str(6) } THEN RuleRow(6, 1, TRUE)
         ELSE RuleRow(5, 1, TRUE)]

\* what the user leaves in the table of the dialog before pressing Save:
\* one member and one manager on every weekday, no leader required
RuleTables ==
    { [k \in { Str(r) : r \in 0 .. 6 } |-> RuleRow(1, 1, FALSE)] }

\* MainWindow.on_open_weekday_rules: the dialog creates the file from the
\* template when it is missing; Save writes the seven rows of the table,
\* Cancel leaves the file
OnOpenWeekdayRules(accepted, table) ==
    /\ weekday_rules_file' =
           IF accepted THEN table
           ELSE IF weekday_rules_file = << >> THEN WeekdayRulesTemplate
           ELSE weekday_rules_file
    /\ last' = NoCall("on_open_weekday_rules")
    /\ check' = NoCheck
    /\ UNCHANGED << combos, staff_lists, year, month, days, status, wishes,
                    wish_paid, leaders, vac_days, period_maps, sched_files,
                    vacations_file, holidays_file, special_quota_file,
                    members_file, members_is_list, tail_file, edits, saves >>

\* Staff.from_dict of one row of members.json
StaffOf(row) == [name |-> row.name, is_manager |-> row.is_manager]

\* what the user leaves in the table of the members dialog before pressing
\* Save: every row deleted, or a third member added
MemberTables ==
    { << >>,
      MembersFile \o << [name |-> "ueda", is_manager |-> FALSE, paid_left |-> 0] >> }

\* MainWindow.on_open_members with the dialog accepted: save_and_close
\* writes {"members": data} and then the bare list data to the same path
\* (STAFFS_JSON = MEMBERS_JSON), MainWindow.staffs is read again from it
\* (the model keeps the staff list it was built with) and on_load runs.
\* With members.json already a bare list the dialog's constructor raises
\* on obj.get and nothing happens
OnOpenMembers(table) ==
    /\ ~members_is_list
    /\ members_file' = table
    /\ members_is_list' = TRUE
    /\ window_staffs' = [i \in 1 .. Len(table) |-> StaffOf(table[i])]
    /\ LoadPeriod(window_staffs', TRUE, table)
    /\ last' = NoCall("on_open_members")
    /\ check' = NoCheck
    /\ UNCHANGED << combos, staffs, vac_days, sched_files, vacations_file,
                    holidays_file, weekday_rules_file, special_quota_file,
                    tail_file, edits, saves >>

\* one row of the table of LongVacationDialog as the user leaves it: the
\* member combo, the title item, the two date edits and the paid spin box
TableRow(member, title, start, end, paid_used) ==
    [member |-> member, title |-> title, start |-> start, end |-> end,
     paid_used |-> paid_used]

\* save_and_close: days = (d1 - d0).days + 1
RowDays(r) == DateOrd(r.end) - DateOrd(r.start) + 1

\* save_and_close: a row without member or title is passed over
RowSkipped(r) == r.member = "" \/ r.title = ""

\* faulty variant: the length of the interval has no upper limit
RowFailsNoUpper(r) ==
    /\ ~RowSkipped(r)
    /\ (RowDays(r) <= 0 \/ r.paid_used > RowDays(r) \div 2)

\* save_and_close: the row makes the handler show a warning and return
RowFails(r) ==
    /\ ~RowSkipped(r)
    /\ (RowDays(r) <= 0 \/ RowDays(r) > 14 \/ r.paid_used > RowDays(r) \div 2)

\* save_and_close: the list written when no row fails
RECURSIVE SavedVacations(_, _)
SavedVacations(table, i) ==
    IF i > Len(table) THEN << >>
    ELSE LET r == table[i]
             row == [member |-> r.member, name |-> r.title, start |-> r.start,
                     end |-> r.end, days |-> RowDays(r),
                     paid_cap |-> RowDays(r) \div 2, paid_used |-> r.paid_used]
         IN  (IF RowSkipped(r) THEN << >> ELSE << row >>)
             \o SavedVacations(table, i + 1)

\* the date pairs of a table row: the end is never before the start
\* (on_date_changed moves it there), and an interval is 1, 14 or 15 days
\* long (the start moved back after the end was set)
TableIntervals ==
    { << <<FirstYear, 12, 16>>, <<FirstYear, 12, 16>> >>,
      << <<FirstYear, 12, 16>>, <<FirstYear, 12, 29>> >>,
      << <<FirstYear, 12, 16>>, <<FirstYear, 12, 30>> >> }

\* the rows of a table: the paid spin box at 0 or at 7, never above its
\* maximum, which on_date_changed sets to min(days, 14) // 2; one row has
\* no title yet
TableRows ==
    { r \in { TableRow("sako", "leave", iv[1], iv[2], paid) :
                  iv \in TableIntervals, paid \in {0, 7} } :
          r.paid_used <= Min(RowDays(r), 14) \div 2 }
    \cup { TableRow("sako", "", <<FirstYear, 12, 16>>, <<FirstYear, 12, 29>>, 0) }

\* the tables the user leaves before pressing Save or Cancel: up to two rows
LongVacTables ==
    { << >> } \cup { << r >> : r \in TableRows }
              \cup { << r, q >> : r \in TableRows, q \in TableRows }

\* MainWindow.on_open_longvac: on Save every row is examined in order, the
\* first failing row ends the handler with a warning and nothing written,
\* otherwise the list of the rows that are not passed over replaces the
\* file; Cancel leaves the file
OnOpenLongVac(accepted, table) ==
    LET rejected == accepted /\ \E i \in 1 .. Len(table) : RowFails(table[i])
    IN  /\ vacations_file' =
               IF accepted /\ ~rejected THEN SavedVacations(table, 1)
               ELSE vacations_file
        /\ last' = [table |-> table, accepted |-> accepted,
                     rejected |-> rejected] @@ NoCall("on_open_longvac")
        /\ check' = NoCheck
        /\ UNCHANGED << combos, staff_lists, year, month, days, status, wishes,
                        wish_paid, leaders, vac_days, period_maps, sched_files,
                        holidays_file, weekday_rules_file, special_quota_file,
                        members_file, members_is_list, tail_file, edits,
                        saves >>

\* MainWindow.__init__ in a fresh data directory that may hold a
\* long_vacations.json of an earlier session: the staff directory is read,
\* the model is built (vac_days empty), the combo boxes show today's year
\* and month, and on_load has run (no schedule file: every cell default)
InitWindow(years, months, vacfiles) ==
    /\ year_cb \in years
    /\ month_cb \in months
    /\ window_staffs = StaffList
    /\ staffs = StaffList
    /\ year = year_cb
    /\ month = month_cb
    /\ days = PeriodDays(year_cb, month_cb)
    /\ FreshFiles
    /\ vacations_file \in vacfiles
    /\ vac_days = [n \in StaffNames(StaffList) |-> {}]
    /\ sat_days = SatDays(year, month, days)
    /\ hol_days = HolDays(year, month, days, holidays_file)
    /\ weekend_days = WeekendDays(year, month, days)
    /\ req_min_work = ReqMinWork(year, month, days, weekday_rules_file,
                                 special_quota_file)
    /\ paid_left = PaidLeft(staffs, members_file)
    /\ status = [n \in StaffNames(staffs) |-> [d \in Toset(days) |-> Work]]
    /\ wishes = [n \in StaffNames(staffs) |-> [d \in Toset(days) |-> FALSE]]
    /\ wish_paid = [n \in StaffNames(staffs) |-> [d \in Toset(days) |-> FALSE]]
    /\ leaders = [d \in Toset(days) |-> "-"]
    /\ edits = 0
    /\ saves = 0
    /\ last = NoCall("on_load")
    /\ check = NoCheck

\* the window with period selection, loads and cell edits; the periods
\* selected are those of EditMonths in the first year
Init == InitWindow({FirstYear}, EditMonths, VacFiles)

Next ==
    \/ \E m \in EditMonths : SelectMonth(m)
    \/ OnLoad
    \/ \E rc \in EditCells : ToggleStatus(rc[1], rc[2])
    \/ \E rc \in EditCells : TogglePaidFlag(rc[1], rc[2])
    \/ \E rc \in EditCells : ToggleWishCycle(rc[1], rc[2])

Spec == Init /\ [][Next]_vars

\* the window with saves as well, one staff row edited, no vacation file
InitSave == InitWindow({FirstYear}, EditMonths, { << >> })

NextSave ==
    \/ \E m \in EditMonths : SelectMonth(m)
    \/ OnLoad
    \/ OnSave
    \/ \E rc \in EditCells : rc[1] = 1 /\ ToggleStatus(rc[1], rc[2])
    \/ \E rc \in EditCells : rc[1] = 1 /\ TogglePaidFlag(rc[1], rc[2])
    \/ \E rc \in EditCells : rc[1] = 1 /\ ToggleWishCycle(rc[1], rc[2])

SpecSave == InitSave /\ [][NextSave]_vars

\* the cell edited between a save and the load that follows it: token 16
\* of the first row
TripCells == { rc \in EditCells : rc[1] = 1 /\ days[rc[2]] = 16 }

\* the window with saves and loads, one cell edited
NextTrip ==
    \/ \E m \in EditMonths : SelectMonth(m)
    \/ OnLoad
    \/ OnSave
    \/ \E rc \in TripCells : ToggleStatus(rc[1], rc[2])
    \/ \E rc \in TripCells : TogglePaidFlag(rc[1], rc[2])
    \/ \E rc \in TripCells : ToggleWishCycle(rc[1], rc[2])

SpecTrip == InitSave /\ [][NextTrip]_vars

\* the window over every period of the combo boxes, loads only
InitCal == InitWindow(Years, Months, { << >> })

NextCal ==
    \/ \E y \in Years : SelectYear(y)
    \/ \E m \in Months : SelectMonth(m)
    \/ OnLoad

SpecCal == InitCal /\ [][NextCal]_vars

\* the window on the December period with loads and the long-vacation
\* dialog, in a data directory that may hold a long_vacations.json
InitVac == InitWindow({FirstYear}, {12}, VacFiles)

NextVac ==
    \/ OnLoad
    \/ \E accepted \in BOOLEAN, table \in LongVacTables :
           OnOpenLongVac(accepted, table)

SpecVac == InitVac /\ [][NextVac]_vars

\* the months selected when tail records are made: the first three of a
\* year, so that the period before January is among the previous periods
TailMonths == {1, 2, 3}

\* the window with period selection, loads and the tail button
InitTail == InitWindow(Years, TailMonths, { << >> })

NextTail ==
    \/ \E y \in Years : SelectYear(y)
    \/ \E m \in TailMonths : SelectMonth(m)
    \/ OnLoad
    \/ OnEditPrevTail

SpecTail == InitTail /\ [][NextTail]_vars

(* ------------------- the window with validation runs ------------------- *)
\* weekday_rules.json of an earlier session: missing, or rules for Friday
\* and Saturday only (the other weekdays have no rule)
RuleFiles ==
    { << >>,
      [k \in { Str(4), Str(5) } |->
           IF k = Str(4) THEN RuleRow(2, 1, FALSE) ELSE RuleRow(3, 1, FALSE)] }

\* one period of special_quota.json as SpecialQuotaDialog writes it
QuotaRow(start, end, min_work) ==
    [name |-> "quota", start |-> start, end |-> end, min_work |-> min_work]

\* the schedule files of an earlier session: none, or a file of the
\* December period that names a leader for token 1 and for token 2
SchedFiles ==
    { << >>,
      [k \in { <<FirstYear, 12>> } |->
           [leaders |-> [t \in { Str(1), Str(2) } |->
                             IF t = Str(1) THEN "arai" ELSE "sako"]]] }

\* the day tokens whose columns the modelled user clicks on before a
\* validation run: the first three days of the following month
CheckTokens == {1, 2, 3}

CheckCells == { rc \in (1 .. Len(staffs)) \X (1 .. Len(days)) :
                    days[rc[2]] \in CheckTokens }

\* the cell whose paid-leave flag and wish the modelled user sets there:
\* token 1 of the first row
FlagCells == { rc \in CheckCells : rc[1] = 1 /\ days[rc[2]] = 1 }

\* MainWindow.__init__ in a data directory that holds the files of earlier
\* sessions: the staff directory is read, the model is built, on_load has run
InitSession(years, months, schedfiles, rulefiles, quotafiles) ==
    /\ year_cb \in years
    /\ month_cb \in months
    /\ window_staffs = StaffList
    /\ staffs = StaffList
    /\ year = year_cb
    /\ month = month_cb
    /\ days = PeriodDays(year_cb, month_cb)
    /\ sched_files \in schedfiles
    /\ vacations_file = << >>
    /\ holidays_file = {}
    /\ weekday_rules_file \in rulefiles
    /\ special_quota_file \in quotafiles
    /\ members_file = MembersFile
    /\ members_is_list = FALSE
    /\ tail_file = << >>
    /\ vac_days = [n \in StaffNames(StaffList) |-> {}]
    /\ sat_days = SatDays(year, month, days)
    /\ hol_days = HolDays(year, month, days, holidays_file)
    /\ weekend_days = WeekendDays(year, month, days)
    /\ req_min_work = ReqMinWork(year, month, days, weekday_rules_file,
                                 special_quota_file)
    /\ paid_left = PaidLeft(window_staffs, members_file)
    /\ LET obj == SavedObj(year, month)
           names == StaffNames(window_staffs)
       IN  /\ status = [n \in names |-> [d \in Toset(days) |->
                  SavedStatus(SavedRow(SavedField(obj, "status"), n), d)]]
           /\ wishes = [n \in names |-> [d \in Toset(days) |->
                  SavedFlag(SavedRow(SavedField(obj, "wishes"), n), d)]]
           /\ wish_paid = [n \in names |-> [d \in Toset(days) |->
                  SavedFlag(SavedRow(SavedField(obj, "wish_paid"), n), d)]]
           /\ leaders = [d \in Toset(days) |->
                  SavedLeader(SavedField(obj, "leaders"), d)]
    /\ edits = 0
    /\ saves = 0
    /\ last = NoCall("on_load")
    /\ check = NoCheck

\* the window with cell edits, the weekday-rules dialog and validation runs
InitCheck == InitSession({FirstYear}, EditMonths, { << >> }, RuleFiles, { << >> })

NextCheck ==
    \/ \E m \in EditMonths : SelectMonth(m)
    \/ OnLoad
    \/ \E rc \in CheckCells : ToggleStatus(rc[1], rc[2])
    \/ \E rc \in FlagCells : TogglePaidFlag(rc[1], rc[2])
    \/ \E rc \in FlagCells : ToggleWishCycle(rc[1], rc[2])
    \/ \E accepted \in BOOLEAN, table \in RuleTables :
           OnOpenWeekdayRules(accepted, table)
    \/ OnCheck

SpecCheck == InitCheck /\ [][NextCheck]_vars

\* the window with the members dialog, the weekday-rules dialog and
\* validation runs, in a data
\* directory that may hold a schedule file naming leaders
InitRoster == InitSession({FirstYear}, EditMonths, SchedFiles, RuleFiles, { << >> })

NextRoster ==
    \/ \E m \in EditMonths : SelectMonth(m)
    \/ OnLoad
    \/ \E rc \in FlagCells : ToggleStatus(rc[1], rc[2])
    \/ \E table \in MemberTables : OnOpenMembers(table)
    \/ \E accepted \in BOOLEAN, table \in RuleTables :
           OnOpenWeekdayRules(accepted, table)
    \/ OnCheck

SpecRoster == InitRoster /\ [][NextRoster]_vars

\* weekday_rules.json for the per-day requirement: the dialog's template
\* (5 on weekdays, 6 at the weekend), or rules for Friday and Saturday only
QuotaRuleFiles == { WeekdayRulesTemplate } \cup RuleFiles

\* special_quota.json for the per-day requirement: no period, a period at
\* the turn of the year asking for 8, or that period inside a longer one
\* asking for 3
QuotaPeriodFiles ==
    { << >>,
      << QuotaRow(<<FirstYear, 12, 30>>, <<FirstYear + 1, 1, 2>>, 8) >>,
      << QuotaRow(<<FirstYear, 12, 30>>, <<FirstYear + 1, 1, 2>>, 8),
         QuotaRow(<<FirstYear, 12, 20>>, <<FirstYear + 1, 1, 10>>, 3) >> }

\* the window over every period of the combo boxes, loads only, in a data
\* directory that holds weekday rules and special quotas
InitQuota == InitSession(Years, Months, { << >> }, QuotaRuleFiles, QuotaPeriodFiles)

SpecQuota == InitQuota /\ [][NextCal]_vars

(* ----------------------- claims on the calendar ------------------------ *)
\* the integer day tokens a period can hold
DayTokens == 1 .. 31

\* C1: for every base year, base month and integer token t in 1..31,
\* resolving t gives (baseYear, baseMonth, t) when t >= 16 and the following
\* month (January of the next year after December) when t < 16.
C1_ResolveFollowingMonth ==
    \A t \in DayTokens :
        ResolveDay(year, month, t) =
            IF t >= 16 THEN <<year, month, t>>
            ELSE IF month = 12 THEN <<year + 1, 1, t>>
            ELSE <<year, month + 1, t>>

\* the same statement of the resolution written inline in
\* _rebuild_period_maps and headerData (which does hold)
InlineResolveFollowingMonth ==
    \A t \in DayTokens :
        PeriodDate(year, month, t) =
            IF t >= 16 THEN <<year, month, t>>
            ELSE IF month = 12 THEN <<year + 1, 1, t>>
            ELSE <<year, month + 1, t>>

C3_ConsecutiveDates ==
    \A i \in 1 .. (Len(days) - 1) :
        LET a == ResolveDay(year, month, days[i])
            b == ResolveDay(year, month, days[i + 1])
        IN  /\ ValidDate(a[1], a[2], a[3])
            /\ ValidDate(b[1], b[2], b[3])
            /\ DateOrd(b) = DateOrd(a) + 1

\* the same statement of the inline resolution (which does hold)
InlineConsecutiveDates ==
    \A i \in 1 .. (Len(days) - 1) :
        LET a == PeriodDate(year, month, days[i])
            b == PeriodDate(year, month, days[i + 1])
        IN  /\ ValidDate(a[1], a[2], a[3])
            /\ ValidDate(b[1], b[2], b[3])
            /\ DateOrd(b) = DateOrd(a) + 1

(* ------------------- claims on the long vacations ---------------------- *)
\* long_vacations.json holds an interval of staff member n that covers the
\* calendar date of token d of the loaded period
VacationCovers(n, d) ==
    \E i \in 1 .. Len(vacations_file) :
        /\ vacations_file[i].member = n
        /\ DateOrd(vacations_file[i].start) <= DateOrd(PeriodDate(year, month, d))
        /\ DateOrd(PeriodDate(year, month, d)) <= DateOrd(vacations_file[i].end)

\* C10: once a period is loaded while long_vacations.json holds an interval
\* of S covering the date of token d, no toggle_status, toggle_paid_flag or
\* toggle_wish_cycle call on (S, d) changes its status or its wish overlay.
C10_VacationCellLocked ==
    ( /\ last.op \in {"toggle_status", "toggle_paid_flag", "toggle_wish_cycle"}
      /\ VacationCovers(last.staff, last.day) )
    => /\ status[last.staff][last.day] = last.status
       /\ wishes[last.staff][last.day] = last.wish
       /\ wish_paid[last.staff][last.day] = last.paid

(* ----------------------- claims on the cell edits ---------------------- *)
\* the wish overlay of a cell: None / WishOff / WishOffPaid
Overlay(is_wish, is_paid) ==
    IF ~is_wish THEN "None" ELSE IF is_paid THEN "WishOffPaid" ELSE "WishOff"

\* this step is a call of method op (every call is recorded in last)
Called(op) == last'.op = op /\ edits' = edits + 1

\* the cell of the last call was open to status edits when it was called
LastUnlocked == ~last.wish /\ last.day \notin VacDaysOf(last.staff)

C5_LockedCellNoOp ==
    [][ ( /\ (Called("toggle_status") \/ Called("toggle_paid_flag"))
          /\ \/ wishes[last'.staff][last'.day]
             \/ last'.day \in VacDaysOf(last'.staff) )
        => /\ status' = status
           /\ wishes' = wishes
           /\ wish_paid' = wish_paid
           /\ leaders' = leaders ]_vars

\* toggle_paid_flag was called on a wish cell that holds Rest (where the
\* flip would have shown) and the cell still holds Rest
C5_Witness ==
    /\ last.op = "toggle_paid_flag"
    /\ last.wish
    /\ last.status = Rest
    /\ status[last.staff][last.day] = Rest

\* C6: on an unlocked cell toggle_paid_flag takes Rest to RestPaid and
\* RestPaid to Rest and leaves Work as it is, however often it is applied.
C6_PaidFlagFlip ==
    (last.op = "toggle_paid_flag" /\ LastUnlocked) =>
        LET now == status[last.staff][last.day]
        IN  /\ last.status = Rest => now = RestPaid
            /\ last.status = RestPaid => now = Rest
            /\ last.status = Work => now = Work
            /\ last.status0 = Work => now = Work

\* toggle_paid_flag has just taken a RestPaid cell back to Rest
C6_Witness ==
    /\ last.op = "toggle_paid_flag" /\ LastUnlocked
    /\ last.status = RestPaid
    /\ status[last.staff][last.day] = Rest

\* C7: from an all-Work grid, under any sequence of the three toggles, a
\* cell becomes RestPaid only from Rest, a toggle_paid_flag step that moves a
\* cell off RestPaid moves it to Rest, and no step takes Work to RestPaid.
C7_RestPaidOnlyFromRest ==
    [][ \A n \in DOMAIN status : \A d \in DOMAIN status[n] :
          /\ (status'[n][d] = RestPaid /\ status[n][d] # RestPaid)
                 => status[n][d] = Rest
          /\ (Called("toggle_paid_flag") /\ status[n][d] = RestPaid
                 /\ status'[n][d] # RestPaid) => status'[n][d] = Rest
          /\ ~(status[n][d] = Work /\ status'[n][d] = RestPaid) ]_vars

\* a cell has just become RestPaid, by toggle_paid_flag on a Rest cell
C7_Witness ==
    /\ last.op = "toggle_paid_flag"
    /\ last.status = Rest
    /\ status[last.staff][last.day] = RestPaid

C9_WishCycleKeepsStatus ==
    [][ Called("toggle_wish_cycle")
            => (status' = status /\ leaders' = leaders) ]_vars

\* toggle_wish_cycle has put a wish on a cell that holds Rest, which still
\* holds Rest
C9_Witness ==
    /\ last.op = "toggle_wish_cycle"
    /\ ~last.wish
    /\ last.status = Rest
    /\ wishes[last.staff][last.day]
    /\ status[last.staff][last.day] = Rest

(* --------------------- claims on the validation run -------------------- *)
\* an on_check run has just ended with a result on the screen
CheckShown == last.op = "on_check" /\ check.outcome \in {"clear", "warning"}

\* the combo boxes show the period the model holds
PeriodShown == year_cb = year /\ month_cb = month

\* the lines of rule r that the result holds for day token d
LinesOf(r, d) ==
    { i \in 1 .. Len(check.msgs) : check.msgs[i].rule = r /\ check.msgs[i].day = d }

\* the number of staff (managers only, when mgr) of the staff directory
\* whose status on d is Work
WorkCount(d, mgr) ==
    Cardinality({ i \in 1 .. Len(window_staffs) :
                    /\ mgr => window_staffs[i].is_manager
                    /\ status[window_staffs[i].name][d] = Work })

\* C11: a validation run never ends in an error: after any sequence of
\* period selections, loads, toggles and configuration edits, and for every
\* weekday-rule configuration, on_check runs to completion and shows the
\* all-clear result or a violation list.
C11_CheckNeverRaises ==
    last.op = "on_check" => check.outcome \in {"clear", "warning"}

\* C12: with an empty staff roster on_check completes and shows an empty
\* violation list, whatever the weekday rules require.
C12_EmptyRosterNoViolations ==
    (last.op = "on_check" /\ Len(window_staffs) = 0)
        => (check.outcome = "clear" /\ check.msgs = << >>)

\* C13: for every day token d of the period, on_check emits a
\* manager-shortage line for d exactly when the number of managers at Work
\* on d is below min_managers of the rule for the weekday of d's calendar
\* date (the following month for d < 16); it emits one such line, and the
\* line carries count/required.
C13_ManagerCoverage ==
    (CheckShown /\ PeriodShown) =>
        \A d \in Toset(days) :
            LET required == RuleMinManagers(weekday_rules_file,
                                            TokenWeekday(year, month, d))
                count == WorkCount(d, TRUE)
            IN  /\ Cardinality(LinesOf("manager", d)) =
                       (IF count < required THEN 1 ELSE 0)
                /\ \A i \in LinesOf("manager", d) :
                       check.msgs[i].cnt = count /\ check.msgs[i].need = required

\* the largest member of a non-empty finite set of numbers
MaxOf(S) == CHOOSE x \in S : \A y \in S : y <= x

\* the special-quota periods that cover the calendar date of token d
Covering(d) ==
    { i \in 1 .. Len(special_quota_file) :
        LET on == DateOrd(PeriodDate(year, month, d))
            a == DateOrd(special_quota_file[i].start)
            b == DateOrd(special_quota_file[i].end)
        IN  (a <= on /\ on <= b) \/ (b <= on /\ on <= a) }

\* the resolved minimum of token d: the maximum of min_work of the rule for
\* the weekday of d's calendar date and of min_work of every special-quota
\* period that covers that date
ResolvedMinWork(d) ==
    MaxOf({ RuleMinWork(weekday_rules_file, TokenWeekday(year, month, d)) }
          \cup { special_quota_file[i].min_work : i \in Covering(d) })

\* C14: for every day token d, on_check emits an understaffing line for d
\* exactly when the number of staff at Work on d is below the resolved
\* minimum for d, whatever the manager check says.
C14_Understaffing ==
    (CheckShown /\ PeriodShown) =>
        \A d \in Toset(days) :
            (LinesOf("work", d) # {}) <=> (WorkCount(d, FALSE) < ResolvedMinWork(d))

\* C15: for every day token d of a loaded period, req_min_work[d] is the
\* maximum of min_work of the weekday rule for d's calendar date and of
\* min_work of every special-quota period containing that date; a lower
\* quota never lowers the requirement and days outside every quota keep
\* the weekday value.
C15_ReqMinWork ==
    /\ DOMAIN req_min_work = Toset(days)
    /\ \A d \in Toset(days) :
           LET weekday_value == RuleMinWork(weekday_rules_file,
                                            TokenWeekday(year, month, d))
           IN  /\ req_min_work[d] = ResolvedMinWork(d)
               /\ req_min_work[d] >= weekday_value
               /\ Covering(d) = {} => req_min_work[d] = weekday_value

\* a period is loaded in which a day with weekday value 5 lies in a quota
\* of 8 and resolves to 8, and another with weekday value 5 lies only in a
\* quota of 3 and keeps 5
C15_Witness ==
    /\ last.op = "on_load"
    /\ \E d \in Toset(days) :
           /\ RuleMinWork(weekday_rules_file, TokenWeekday(year, month, d)) = 5
           /\ \E i \in Covering(d) : special_quota_file[i].min_work = 8
           /\ \E i \in Covering(d) : special_quota_file[i].min_work = 3
           /\ req_min_work[d] = 8
    /\ \E d \in Toset(days) :
           /\ RuleMinWork(weekday_rules_file, TokenWeekday(year, month, d)) = 5
           /\ Covering(d) # {}
           /\ \A i \in Covering(d) : special_quota_file[i].min_work = 3
           /\ req_min_work[d] = 5

\* the statuses of staff member n over the tail followed by the period's
\* days in calendar order
WithTail(n) == DefaultTail \o [i \in 1 .. Len(days) |-> status[n][days[i]]]

\* the maximal runs <<a, b>> of seq whose entries all lie in S
MaximalRuns(seq, S) ==
    { ab \in (1 .. Len(seq)) \X (1 .. Len(seq)) :
        /\ ab[1] <= ab[2]
        /\ \A k \in ab[1] .. ab[2] : seq[k] \in S
        /\ ab[1] > 1 => seq[ab[1] - 1] \notin S
        /\ ab[2] < Len(seq) => seq[ab[2] + 1] \notin S }

\* the runs of staff member n the consecutive-rest rule reports: three or
\* more rest entries, none of them RestPaid, reaching into the period
UnpaidRestRuns(n) ==
    { ab \in MaximalRuns(WithTail(n), {Rest, RestPaid}) :
        /\ ab[2] - ab[1] + 1 >= 3
        /\ \A k \in ab[1] .. ab[2] : WithTail(n)[k] # RestPaid
        /\ ab[2] > Len(DefaultTail) }

\* C16: for every staff member, over the 4 tail statuses followed by the
\* statuses of the period's days in calendar order, the validation emits a
\* violation for every maximal run of 3 or more Rest/RestPaid entries that
\* holds no RestPaid and includes a day of the period.
C16_ConsecutiveRest ==
    (CheckShown /\ PeriodShown) =>
        \A i \in 1 .. Len(window_staffs) :
            LET n == window_staffs[i].name
            IN  Cardinality({ k \in 1 .. Len(check.msgs) :
                                /\ check.msgs[k].rule = "rest_run"
                                /\ check.msgs[k].staff = n })
                    = Cardinality(UnpaidRestRuns(n))

\* the first days of the maximal runs of 4 or more Work days of staff
\* member n, in calendar order
LongWorkRuns(n) ==
    { days[ab[1]] : ab \in { r \in MaximalRuns([i \in 1 .. Len(days) |->
                                                   status[n][days[i]]], {Work}) :
                                r[2] - r[1] + 1 >= 4 } }

\* C17: for every staff member with no wish cell in the period the
\* validation emits exactly one violation for each maximal run of 4 or
\* more consecutive Work days, at the first day of the run; staff with a
\* wish cell get none.
C17_NoWishOverwork ==
    (CheckShown /\ PeriodShown) =>
        \A i \in 1 .. Len(window_staffs) :
            LET n == window_staffs[i].name
                flagged == { check.msgs[k].day :
                               k \in { j \in 1 .. Len(check.msgs) :
                                         /\ check.msgs[j].rule = "overwork"
                                         /\ check.msgs[j].staff = n } }
            IN  flagged = IF \E d \in Toset(days) : wishes[n][d]
                          THEN {} ELSE LongWorkRuns(n)

\* the leader of day d is a member of the staff directory who is not a
\* manager
LeaderNotManager(d) ==
    \E i \in 1 .. Len(window_staffs) :
        window_staffs[i].name = leaders[d] /\ ~window_staffs[i].is_manager

\* C18: for every day whose leader assignment names a staff member who is
\* not a manager the validation emits exactly one leader-ineligible
\* violation, whatever leader_required says; a day whose leader is a
\* manager gets none.
C18_LeaderEligibility ==
    (CheckShown /\ PeriodShown) =>
        \A d \in Toset(days) :
            Cardinality(LinesOf("leader_ineligible", d)) =
                (IF LeaderNotManager(d) THEN 1 ELSE 0)

\* C19: for every day whose weekday rule has leader_required the
\* validation emits a leader-absent violation exactly when no leader is
\* assigned to that day, whoever is working.
C19_LeaderAbsence ==
    (last.op = "on_check" /\ PeriodShown) =>
        \A d \in Toset(days) :
            RuleLeaderRequired(weekday_rules_file, TokenWeekday(year, month, d))
                => ((LinesOf("leader", d) # {}) <=> (leaders[d] \in {"", "-"}))

\* the order of the rules within a day
RuleRank(r) == IF r = "work" THEN 1 ELSE IF r = "manager" THEN 2 ELSE 3

\* line a of a result stands before line b: an earlier calendar day (of the
\* period the combo boxes show), or the same day and an earlier rule
Before(a, b) ==
    LET da == DateOrd(PeriodDate(year_cb, month_cb, a.day))
        db == DateOrd(PeriodDate(year_cb, month_cb, b.day))
    IN  da < db \/ (da = db /\ RuleRank(a.rule) < RuleRank(b.rule))

\* the lines of the result on the screen are in calendar and rule order
ResultOrdered ==
    CheckShown =>
        \A i \in 1 .. Len(check.msgs) : \A j \in (i + 1) .. Len(check.msgs) :
            Before(check.msgs[i], check.msgs[j])

C21_CheckReadOnly ==
    [][last'.op = "on_check" =>
           UNCHANGED << status, wishes, wish_paid, leaders, req_min_work >>]_vars

\* a run over an edited grid has just reported violations
C21_Witness ==
    /\ last.op = "on_check"
    /\ check.outcome = "warning"
    /\ \E n \in DOMAIN status : \E d \in DOMAIN status[n] : status[n][d] # Work

PersistedCell(field, n, d, absent) ==
    LET key == <<year_cb, month_cb>>
    IN  IF /\ key \in DOMAIN sched_files
           /\ field \in DOMAIN sched_files[key]
           /\ n \in DOMAIN sched_files[key][field]
           /\ Str(d) \in DOMAIN sched_files[key][field][n]
        THEN sched_files[key][field][n][Str(d)]
        ELSE absent

\* C23: on_load populates every (staff, day) cell of the current staff
\* directory and the day tokens of the selected period: from the schedule
\* file where it holds the cell, and otherwise (no file, staff member
\* absent, day absent) with status Work and no wish.
C23_LoadPopulatesEveryCell ==
    last.op = "on_load" =>
        LET names == StaffNames(window_staffs)
            tokens == Toset(PeriodDays(year_cb, month_cb))
        IN  /\ DOMAIN status = names
            /\ DOMAIN wishes = names
            /\ DOMAIN wish_paid = names
            /\ \A n \in names :
                   /\ DOMAIN status[n] = tokens
                   /\ DOMAIN wishes[n] = tokens
                   /\ DOMAIN wish_paid[n] = tokens
                   /\ \A d \in tokens :
                          /\ status[n][d] = PersistedCell("status", n, d, Work)
                          /\ wishes[n][d] = PersistedCell("wishes", n, d, FALSE)
                          /\ wish_paid[n][d] = PersistedCell("wish_paid", n, d, FALSE)

\* the tail entries are recorded for every key of last_tail.json with
\* exactly four entries per staff member
TailRecordsFour ==
    \A k \in DOMAIN tail_file : \A n \in DOMAIN tail_file[k] :
        Len(tail_file[k][n]) = 4

RowWithinLimits(v) ==
    /\ 1 <= v.days /\ v.days <= 14
    /\ v.days = DateOrd(v.end) - DateOrd(v.start) + 1
    /\ v.paid_cap = v.days \div 2
    /\ v.paid_used <= v.paid_cap

\* C25: every vacation interval the long-vacation editor persists has
\* 1 <= days <= 14, paid_cap = floor(days / 2) and paid_used <= paid_cap;
\* when a row of the table fails these on Save, the save is rejected with a
\* message and the persisted data are unchanged (no row of the table is
\* written).
C25_LongVacationLimits ==
    /\ [](\A i \in 1 .. Len(vacations_file) : RowWithinLimits(vacations_file[i]))
    /\ [][(/\ last'.op = "on_open_longvac"
            /\ last'.accepted
            /\ \E i \in 1 .. Len(last'.table) :
                   LET r == last'.table[i]
                   IN  /\ r.member # "" /\ r.title # ""
                       /\ ~(1 <= RowDays(r) /\ RowDays(r) <= 14
                               /\ r.paid_used <= RowDays(r) \div 2))
           => (last'.rejected /\ vacations_file' = vacations_file)]_vars

\* a Save has just been rejected for a table whose first row is within the
\* limits and whose second row is too long, while the file holds a row
C25_Witness ==
    /\ last.op = "on_open_longvac"
    /\ last.rejected
    /\ Len(last.table) = 2
    /\ ~RowSkipped(last.table[1]) /\ ~RowFails(last.table[1])
    /\ RowDays(last.table[2]) > 14
    /\ Len(vacations_file) > 0

\* C26: in every state reached from a fresh grid by wish operations
\* (toggle_wish_cycle, toggle_wish) and status operations, a cell whose
\* paid-wish flag is set holds a wish.
C26_PaidWishImpliesWish ==
    \A n \in DOMAIN wish_paid : \A d \in DOMAIN wish_paid[n] :
        wish_paid[n][d] => wishes[n][d]

\* map holds an entry for staff member n and day token d
HasCell(map, n, d) == n \in DOMAIN map /\ d \in DOMAIN map[n]

\* C27: in every state reached by loads, reloads of the staff directory
\* (the members dialog accepted), toggles and saves the grid is
\* structurally complete: for every staff member of the model's staff list
\* and every day token of the model's day list the status map, the wish
\* map and the paid-wish map hold an entry.
C27_GridComplete ==
    \A i \in 1 .. Len(staffs) : \A j \in 1 .. Len(days) :
        /\ HasCell(status, staffs[i].name, days[j])
        /\ HasCell(wishes, staffs[i].name, days[j])
        /\ HasCell(wish_paid, staffs[i].name, days[j])

\* C28: on_save writes the grid to the schedule file of the period the
\* grid was loaded for: also when the selection was changed after the load
\* and no load followed, a save changes no file but that of the loaded
\* period, and the year and month inside every written file are those of
\* its file name.
C28_SaveToLoadedPeriod ==
    /\ [](\A k \in DOMAIN sched_files :
             ("year" \in DOMAIN sched_files[k] /\ "month" \in DOMAIN sched_files[k])
                 => << sched_files[k].year, sched_files[k].month >> = k)
    /\ [][last'.op = "on_save" =>
             /\ << year, month >> \in DOMAIN sched_files'
             /\ \A k \in DOMAIN sched_files' \ { << year, month >> } :
                    k \in DOMAIN sched_files /\ sched_files'[k] = sched_files[k]]_vars

\* C29: save / load round trip: for every grid reached through toggles,
\* on_save followed by on_load of the same period (the one the grid was
\* loaded for), the staff directory unchanged, gives back exactly the
\* status, the wish, the paid-wish flag of every cell and the leader of
\* every day, although the day tokens are written as strings.
C29_SaveLoadRoundTrip ==
    [][(last.op = "on_save" /\ PeriodShown /\ last'.op = "on_load")
           => /\ status' = status
              /\ wishes' = wishes
              /\ wish_paid' = wish_paid
              /\ leaders' = leaders]_vars

\* a load has just read the file of the period shown, written by a save of
\* this session, and the grid holds a rest cell and a paid wish
C29_Witness ==
    /\ last.op = "on_load"
    /\ PeriodShown
    /\ << year, month >> \in DOMAIN sched_files
    /\ sched_files[<< year, month >>].month = month
    /\ \E n \in DOMAIN status : \E d \in DOMAIN status[n] : status[n][d] = Rest
    /\ \E n \in DOMAIN wish_paid : \E d \in DOMAIN wish_paid[n] : wish_paid[n][d]

\* the per-day requirement map is what the configuration files give for
\* the loaded period: no file was changed since the load
ConfigurationAsLoaded ==
    req_min_work = ReqMinWork(year, month, days, weekday_rules_file,
                              special_quota_file)

\* C30: the staffing indicator of the header and the validation agree: for
\* every day token of a loaded period, the configuration unchanged,
\* on_check reports understaffing for the day exactly when the header shows
\* a shortage for it (a requirement above 0 and fewer at work), with the
\* same count and the same required number; a day whose header shows no
\* requirement gets no understaffing line.
C30_HeaderAgreesWithCheck ==
    (CheckShown /\ PeriodShown /\ ConfigurationAsLoaded) =>
        \A d \in Toset(days) :
            /\ (LinesOf("work", d) # {}) <=> (HeaderMissing(d) > 0)
            /\ \A i \in LinesOf("work", d) :
                   /\ check.msgs[i].cnt = CountWorkOnDay(d)
                   /\ check.msgs[i].need = HeaderNeed(d)
            /\ HeaderNeed(d) = 0 => LinesOf("work", d) = {}

====
